---- MODULE Spec2Model ----
(***************************************************************************)
(* The warehouse-heartbeat aggregation of bfcm-2025-dataviz:                *)
(*   src/src/app/api/heartbeat/route.ts                                     *)
(*     percentile75, computeHeartbeat, ensureRow, fetchCsvSafe, GET         *)
(*                                                                          *)
(* JavaScript numbers are IEEE-754 binary64.  They are modelled bit for bit *)
(* (53-bit significands, round to nearest, ties to even) on naturals kept   *)
(* as little-endian sequences of 14-bit limbs, because the model checker's  *)
(* integers are 32 bits wide.  Strings are sequences of UTF-16 code units.  *)
(***************************************************************************)
EXTENDS Integers, Sequences, FiniteSets, TLC

VARIABLES
  values,          \* percentile75: the caller's array
  p75ret,          \* percentile75: the value returned, or Undefined before the call
  rows,            \* computeHeartbeat: the caller's array of MetricsRow
  chpc,            \* computeHeartbeat: position in the function body
  safeRows,        \* computeHeartbeat: const safeRows
  totalWeight,     \* computeHeartbeat: const totalWeight
  q75,             \* computeHeartbeat: const q75
  points,          \* computeHeartbeat: the array returned
  prev,            \* computeHeartbeat: what an earlier call on the same rows returned
  fpc,             \* GET: position of each of the five fetchCsvSafe calls
  parsed,          \* GET: what Papa.parse returned inside each fetchCsvSafe call
  csv,             \* GET: what each fetchCsvSafe call returned
  gpc,             \* GET: position in the handler body
  idx,             \* GET: index of the next row of the loop being run
  map,             \* GET: const map (date -> MetricsRow), in insertion order
  countriesByDate, \* GET: const countriesByDate, in insertion order
  response,        \* GET: the response sent, or Undefined
  comp,            \* the polling component mounted, or "none"
  effect,          \* number of the data effect that is live, 0 when unmounted
  cancelled,       \* the data effects whose cleanup has set cancelled = true
  timer,           \* the data effect whose setInterval timer is set, or 0
  fetches,         \* the fetchData calls that have not returned
  started,         \* the number of fetchData calls so far
  data,            \* the data state: data / points / buckets
  lastSet,         \* the fetchData call that last called the state setter
  index,           \* CometMap: the index state
  autoplay,        \* CometMap: buckets.length in the live autoplay timer, or 0
  dayRhythms       \* DailyRhythmRings: const dayRhythms

vars == <<values, p75ret, rows, chpc, safeRows, totalWeight, q75, points, prev,
          fpc, parsed, csv, gpc, idx, map, countriesByDate, response,
          comp, effect, cancelled, timer, fetches, started, data, lastSet,
          index, autoplay, dayRhythms>>

p75vars == <<values, p75ret>>
chvars == <<rows, chpc, safeRows, totalWeight, q75, points, prev>>
getvars == <<fpc, parsed, csv, gpc, idx, map, countriesByDate, response>>
pollvars == <<comp, effect, cancelled, timer, fetches, started, data, lastSet>>
uivars == <<pollvars, index, autoplay, dayRhythms>>

\* JavaScript's undefined (an absent property, a variable not yet assigned),
\* shaped like a number so that a number-or-undefined slot compares with either
Undefined == [k |-> "undefined", s |-> 0, m |-> <<>>, e |-> 0]

(***************************************************************************)
(* Naturals of any size: little-endian limbs, no leading zero limb.        *)
(***************************************************************************)
LimbBits == 14
Base == 2^LimbBits

RECURSIVE BTrim(_)
BTrim(a) == IF a = <<>> THEN a
            ELSE IF a[Len(a)] = 0 THEN BTrim(SubSeq(a, 1, Len(a) - 1)) ELSE a

RECURSIVE BFromInt(_)
BFromInt(n) == IF n = 0 THEN <<>> ELSE <<n % Base>> \o BFromInt(n \div Base)

RECURSIVE BAddC(_, _, _)
BAddC(a, b, c) ==
  IF a = <<>> /\ b = <<>> THEN (IF c = 0 THEN <<>> ELSE <<c>>)
  ELSE LET x == IF a = <<>> THEN 0 ELSE Head(a)
           y == IF b = <<>> THEN 0 ELSE Head(b)
           s == x + y + c
       IN <<s % Base>> \o BAddC(IF a = <<>> THEN a ELSE Tail(a),
                                IF b = <<>> THEN b ELSE Tail(b), s \div Base)

BAdd(a, b) == BAddC(a, b, 0)

RECURSIVE BSubC(_, _, _)
BSubC(a, b, c) ==
  IF a = <<>> THEN <<>>
  ELSE LET y == IF b = <<>> THEN 0 ELSE Head(b)
           s == Head(a) - y - c
       IN <<s % Base>> \o BSubC(Tail(a), IF b = <<>> THEN b ELSE Tail(b),
                                IF s < 0 THEN 1 ELSE 0)

\* a - b, for a >= b
BSub(a, b) == BTrim(BSubC(a, b, 0))

RECURSIVE BCmpAt(_, _, _)
BCmpAt(a, b, i) == IF i = 0 THEN 0
                   ELSE IF a[i] < b[i] THEN -1
                   ELSE IF a[i] > b[i] THEN 1
                   ELSE BCmpAt(a, b, i - 1)

BCmp(a, b) == IF Len(a) < Len(b) THEN -1
              ELSE IF Len(a) > Len(b) THEN 1
              ELSE BCmpAt(a, b, Len(a))

RECURSIVE BMulSmallC(_, _, _)
BMulSmallC(a, d, c) ==
  IF a = <<>> THEN (IF c = 0 THEN <<>> ELSE <<c>>)
  ELSE LET s == Head(a) * d + c
       IN <<s % Base>> \o BMulSmallC(Tail(a), d, s \div Base)

\* a * d for a limb d
BMulSmall(a, d) == IF d = 0 THEN <<>> ELSE BMulSmallC(a, d, 0)

RECURSIVE BMul(_, _)
BMul(a, b) ==
  IF b = <<>> \/ a = <<>> THEN <<>>
  ELSE BAdd(BMulSmall(a, Head(b)),
            LET r == BMul(a, Tail(b)) IN IF r = <<>> THEN r ELSE <<0>> \o r)

BShl(a, k) == IF a = <<>> THEN a
              ELSE [i \in 1..(k \div LimbBits) |-> 0] \o BMulSmall(a, 2^(k % LimbBits))

RECURSIVE BDivSmallAt(_, _, _, _)
BDivSmallAt(a, d, i, r) ==
  IF i = 0 THEN <<>>
  ELSE LET x == r * Base + a[i]
       IN BDivSmallAt(a, d, i - 1, x % d) \o <<x \div d>>

\* a \div d for a limb d # 0
BDivSmall(a, d) == BTrim(BDivSmallAt(a, d, Len(a), 0))

BShr(a, k) == IF k \div LimbBits >= Len(a) THEN <<>>
              ELSE BDivSmall(SubSeq(a, (k \div LimbBits) + 1, Len(a)), 2^(k % LimbBits))

RECURSIVE IntBitLen(_)
IntBitLen(n) == IF n = 0 THEN 0 ELSE 1 + IntBitLen(n \div 2)

BBitLen(a) == IF a = <<>> THEN 0 ELSE LimbBits * (Len(a) - 1) + IntBitLen(a[Len(a)])

BBit(a, k) == IF k \div LimbBits >= Len(a) THEN 0
              ELSE (a[(k \div LimbBits) + 1] \div 2^(k % LimbBits)) % 2

BOdd(a) == a # <<>> /\ a[1] % 2 = 1

\* whether one of the k low bits of a is set
BLowBits(a, k) ==
  \E i \in 1..Len(a) :
     /\ LimbBits * (i - 1) < k
     /\ (IF LimbBits * i <= k THEN a[i] ELSE a[i] % 2^(k - LimbBits * (i - 1))) # 0

RECURSIVE BToInt(_)
BToInt(a) == IF a = <<>> THEN 0 ELSE Head(a) + Base * BToInt(Tail(a))

\* one digit of the long division, for r < d * Base: <<q, r - q * d>>
RECURSIVE BDigit(_, _, _)
BDigit(r, d, q) ==
  IF BCmp(r, d) < 0 THEN <<q, r>>
  ELSE LET L == Len(d)
           top == (IF Len(r) > L THEN r[L + 1] * Base ELSE 0) + r[L]
           est == top \div (d[L] + 1)
           e == IF est = 0 THEN 1 ELSE est
       IN BDigit(BSub(r, BMulSmall(d, e)), d, q + e)

RECURSIVE BDivModAt(_, _, _, _)
BDivModAt(n, d, i, r) ==
  IF i = 0 THEN <<<<>>, r>>
  ELSE LET x == BTrim(<<n[i]>> \o r)
           qr == BDigit(x, d, 0)
           rest == BDivModAt(n, d, i - 1, qr[2])
       IN <<rest[1] \o <<qr[1]>>, rest[2]>>

\* <<n \div d, n % d>> for d # 0
BDivMod(n, d) == LET x == BDivModAt(n, d, Len(n), <<>>) IN <<BTrim(x[1]), x[2]>>

(***************************************************************************)
(* binary64.  A finite non-zero number is (-1)^s * m * 2^e with            *)
(* 2^52 <= m < 2^53.  The magnitudes that occur here stay far from the      *)
(* subnormal and overflow ranges; the sign of a zero is not kept (no        *)
(* operation of the program tells +0 from -0).                              *)
(***************************************************************************)
MantBits == 53

FZero == [k |-> "zero", s |-> 0, m |-> <<>>, e |-> 0]

FNaN == [k |-> "nan", s |-> 0, m |-> <<>>, e |-> 0]

FInf(s) == [k |-> "inf", s |-> s, m |-> <<>>, e |-> 0]

\* the double nearest to (-1)^s * (M + x) * 2^E, ties to even, where 0 < x < 1
\* if sticky and x = 0 otherwise
FRound(s, M, E, sticky) ==
  LET L == BBitLen(M) IN
  IF L = 0 THEN FZero
  ELSE IF L <= MantBits
       THEN [k |-> "fin", s |-> s, m |-> BShl(M, MantBits - L), e |-> E - (MantBits - L)]
  ELSE LET sh == L - MantBits
           q == BShr(M, sh)
           guard == BBit(M, sh - 1) = 1
           rest == sticky \/ BLowBits(M, sh - 1)
           up == guard /\ (rest \/ BOdd(q))
           m1 == IF up THEN BAdd(q, <<1>>) ELSE q
       IN IF BBitLen(m1) > MantBits
          THEN [k |-> "fin", s |-> s, m |-> BShr(m1, 1), e |-> E + sh + 1]
          ELSE [k |-> "fin", s |-> s, m |-> m1, e |-> E + sh]

FFromInt(n) ==
  IF n = 0 THEN FZero
  ELSE FRound(IF n < 0 THEN 1 ELSE 0, BFromInt(IF n < 0 THEN -n ELSE n), 0, FALSE)

FNeg(a) == IF a.k \in {"zero", "nan"} THEN a ELSE [a EXCEPT !.s = 1 - a.s]

\* a + b
FAdd(a, b) ==
  IF a.k = "nan" \/ b.k = "nan" THEN FNaN
  ELSE IF a.k = "inf" THEN (IF b.k = "inf" /\ b.s # a.s THEN FNaN ELSE a)
  ELSE IF b.k = "inf" THEN b
  ELSE IF a.k = "zero" THEN b
  ELSE IF b.k = "zero" THEN a
  ELSE LET e == IF a.e < b.e THEN a.e ELSE b.e
           A == BShl(a.m, a.e - e)
           B == BShl(b.m, b.e - e)
           c == BCmp(A, B)
       IN IF a.s = b.s THEN FRound(a.s, BAdd(A, B), e, FALSE)
          ELSE IF c = 0 THEN FZero
          ELSE IF c > 0 THEN FRound(a.s, BSub(A, B), e, FALSE)
          ELSE FRound(b.s, BSub(B, A), e, FALSE)

\* a - b
FSub(a, b) == FAdd(a, FNeg(b))

\* a * b
FMul(a, b) ==
  LET s == (a.s + b.s) % 2 IN
  IF a.k = "nan" \/ b.k = "nan" THEN FNaN
  ELSE IF a.k = "inf" \/ b.k = "inf"
       THEN (IF a.k = "zero" \/ b.k = "zero" THEN FNaN ELSE FInf(s))
  ELSE IF a.k = "zero" \/ b.k = "zero" THEN FZero
  ELSE FRound(s, BMul(a.m, b.m), a.e + b.e, FALSE)

\* a / b
FDiv(a, b) ==
  LET s == (a.s + b.s) % 2 IN
  IF a.k = "nan" \/ b.k = "nan" THEN FNaN
  ELSE IF a.k = "inf" THEN (IF b.k = "inf" THEN FNaN ELSE FInf(s))
  ELSE IF b.k = "inf" THEN FZero
  ELSE IF b.k = "zero" THEN (IF a.k = "zero" THEN FNaN ELSE FInf(s))
  ELSE IF a.k = "zero" THEN FZero
  ELSE LET qr == BDivMod(BShl(a.m, MantBits + 3), b.m)
       IN FRound(s, qr[1], a.e - b.e - (MantBits + 3), qr[2] # <<>>)

\* the sign of a number that is not NaN: -1, 0 or 1
FSign(a) == IF a.k = "zero" THEN 0 ELSE IF a.s = 1 THEN -1 ELSE 1

\* a < b, for numbers that are not NaN
FLess(a, b) == FSign(FSub(a, b)) < 0

\* Math.floor of a finite number whose floor is a small integer
FFloor(a) ==
  IF a.k = "zero" THEN 0
  ELSE LET whole == IF a.e >= 0 THEN BToInt(BShl(a.m, a.e)) ELSE BToInt(BShr(a.m, 0 - a.e))
           exact == a.e >= 0 \/ ~BLowBits(a.m, 0 - a.e)
       IN IF a.s = 0 THEN whole ELSE IF exact THEN 0 - whole ELSE 0 - whole - 1

\* the double a decimal literal with the value n / d denotes (the literal's
\* conversion and the division of two exactly representable integers are both
\* correctly rounded)
Dec(n, d) == FDiv(FFromInt(n), FFromInt(d))

\* JavaScript's x || y and x ?? y on number-or-undefined operands
Falsy(x) == x.k \in {"undefined", "zero", "nan"}

OrElse(x, y) == IF Falsy(x) THEN y ELSE x

Nullish(x, y) == IF x.k = "undefined" THEN y ELSE x

(***************************************************************************)
(* Strings: sequences of UTF-16 code units.                                *)
(***************************************************************************)
\* " ", "T" and "Z" of r.date.replace(" ", "T") + "Z"
Space == 32

LetterT == 84

LetterZ == 90

\* The place of a code unit in the collation String.prototype.localeCompare
\* uses (ICU, CLDR root order, punctuation not ignored): white space, then
\* punctuation ("-" before ":"), then digits, then letters.
CollationKey(c) ==
  CASE c = Space -> 0
    [] c = 45 -> 1
    [] c = 58 -> 2
    [] c \in 48..57 -> 10 + (c - 48)
    [] OTHER -> 100 + c

RECURSIVE KeysCompare(_, _)
KeysCompare(a, b) ==
  IF a = <<>> THEN (IF b = <<>> THEN 0 ELSE -1)
  ELSE IF b = <<>> THEN 1
  ELSE IF CollationKey(Head(a)) < CollationKey(Head(b)) THEN -1
  ELSE IF CollationKey(Head(a)) > CollationKey(Head(b)) THEN 1
  ELSE KeysCompare(Tail(a), Tail(b))

\* a.localeCompare(b): negative, zero or positive
localeCompare(a, b) == KeysCompare(a, b)

\* str.replaceAll(c, d): every occurrence replaced
ReplaceEvery(str, c, d) == [i \in 1..Len(str) |-> IF str[i] = c THEN d ELSE str[i]]

RECURSIVE ReplaceFirst(_, _, _)
\* str.replace(pattern, replacement) with a one-character string pattern:
\* only the first occurrence is replaced
ReplaceFirst(str, c, d) ==
  IF str = <<>> THEN <<>>
  ELSE IF Head(str) = c THEN <<d>> \o Tail(str)
  ELSE <<Head(str)>> \o ReplaceFirst(Tail(str), c, d)

(***************************************************************************)
(* percentile75                                                            *)
(***************************************************************************)
RECURSIVE InsertNumber(_, _)
\* x put behind every element that the comparator (a, b) => a - b does not
\* place after it
InsertNumber(sorted, x) ==
  IF sorted = <<>> THEN <<x>>
  ELSE IF FSign(FSub(Head(sorted), x)) > 0 THEN <<x>> \o sorted
  ELSE <<Head(sorted)>> \o InsertNumber(Tail(sorted), x)

RECURSIVE SortNumbers(_)
\* arr.sort((a, b) => a - b): the stable ascending order of finite numbers
SortNumbers(arr) ==
  IF arr = <<>> THEN <<>>
  ELSE InsertNumber(SortNumbers(SubSeq(arr, 1, Len(arr) - 1)), arr[Len(arr)])

\* the index rounded to the nearest rank instead of down
PercentileIndexRounded(n) ==
  FFloor(FAdd(FMul(Dec(75, 100), FFromInt(n - 1)), Dec(5, 10)))

\* Math.floor(0.75 * (sorted.length - 1))
PercentileIndex(n) == FFloor(FMul(Dec(75, 100), FFromInt(n - 1)))

\* what percentile75 returns, and the caller's array when it returns (the sort
\* is applied to the copy [...values])
percentile75Call(vals) ==
  IF Len(vals) = 0 THEN [ret |-> FFromInt(1), values |-> vals]
  ELSE LET sorted == SortNumbers(vals)
           i == PercentileIndex(Len(sorted))
       IN [ret |-> OrElse(sorted[i + 1], FFromInt(1)), values |-> vals]

percentile75(vals) == percentile75Call(vals).ret

(***************************************************************************)
(* computeHeartbeat                                                        *)
(***************************************************************************)
metricsKeys == <<"orders", "shipping_labels", "total_packers", "total_pickers",
                 "total_warehouses_packers", "total_warehouses_pickers",
                 "active_countries">>

KeySet == {metricsKeys[i] : i \in 1..Len(metricsKeys)}

\* one weight mistyped
weightsTypo == [orders |-> Dec(10, 10),
                shipping_labels |-> Dec(10, 10),
                total_packers |-> Dec(7, 10),
                total_pickers |-> Dec(8, 10),
                total_warehouses_packers |-> Dec(4, 10),
                total_warehouses_pickers |-> Dec(4, 10),
                active_countries |-> Dec(5, 10)]

weights == [orders |-> Dec(10, 10),
            shipping_labels |-> Dec(10, 10),
            total_packers |-> Dec(7, 10),
            total_pickers |-> Dec(7, 10),
            total_warehouses_packers |-> Dec(4, 10),
            total_warehouses_pickers |-> Dec(4, 10),
            active_countries |-> Dec(5, 10)]

\* a MetricsRow with nothing but its date
NewRow(dateStr) == [date |-> dateStr,
                    orders |-> Undefined,
                    shipping_labels |-> Undefined,
                    total_packers |-> Undefined,
                    total_pickers |-> Undefined,
                    total_warehouses_packers |-> Undefined,
                    total_warehouses_pickers |-> Undefined,
                    active_countries |-> Undefined]

\* a missing field defaulted to 1 instead of 0
SafeRowOnes(r) == [key \in DOMAIN r |->
                     IF key = "date" THEN r.date ELSE Nullish(r[key], FFromInt(1))]

\* { ...r, orders: r.orders ?? 0, ... }
SafeRow(r) == [date |-> r.date,
               orders |-> Nullish(r.orders, FZero),
               shipping_labels |-> Nullish(r.shipping_labels, FZero),
               total_packers |-> Nullish(r.total_packers, FZero),
               total_pickers |-> Nullish(r.total_pickers, FZero),
               total_warehouses_packers |-> Nullish(r.total_warehouses_packers, FZero),
               total_warehouses_pickers |-> Nullish(r.total_warehouses_pickers, FZero),
               active_countries |-> Nullish(r.active_countries, FZero)]

\* rows.map((r) => ({ ...r, ... }))
SafeRows(rs) == [i \in 1..Len(rs) |-> SafeRow(rs[i])]

RECURSIVE SumNumbers(_, _)
\* arr.reduce((a, b) => a + b, acc)
SumNumbers(arr, acc) ==
  IF arr = <<>> THEN acc ELSE SumNumbers(Tail(arr), FAdd(acc, Head(arr)))

\* Object.values(weights).reduce((a, b) => a + b, 0)
TotalWeight == SumNumbers([i \in 1..Len(metricsKeys) |-> weights[metricsKeys[i]]], FZero)

\* the percentile taken without any guard against 0
Q75OfUnguarded(key, srs) ==
  IF srs = <<>> THEN FFromInt(1)
  ELSE SortNumbers([i \in 1..Len(srs) |-> srs[i][key]])[PercentileIndex(Len(srs)) + 1]

\* q75[key] = percentile75(safeRows.map((r) => r[key])) || 1
Q75Of(key, srs) ==
  OrElse(percentile75([i \in 1..Len(srs) |-> srs[i][key]]), FFromInt(1))

Q75(srs) == [key \in KeySet |-> Q75Of(key, srs)]

RECURSIVE InsertRow(_, _)
InsertRow(sorted, r) ==
  IF sorted = <<>> THEN <<r>>
  ELSE IF localeCompare(Head(sorted).date, r.date) > 0 THEN <<r>> \o sorted
  ELSE <<Head(sorted)>> \o InsertRow(Tail(sorted), r)

RECURSIVE SortRows(_)
\* safeRows.sort((a, b) => a.date.localeCompare(b.date)): stable
SortRows(rs) ==
  IF rs = <<>> THEN <<>>
  ELSE InsertRow(SortRows(SubSeq(rs, 1, Len(rs) - 1)), rs[Len(rs)])

\* const denom = q75[key] || 1
Denom(q, key) == OrElse(q[key], FFromInt(1))

\* the weight applied to the raw value, the division by q75 left out
TermRaw(r, q, key) == FMul(weights[key], Nullish(r[key], FZero))

\* weights[key] * norm, for one key of one row
Term(r, q, key) == FMul(weights[key], FDiv(Nullish(r[key], FZero), Denom(q, key)))

RECURSIVE Score(_, _, _, _)
\* the loop over metricsKeys from key number i on, score so far acc
Score(r, q, i, acc) ==
  IF i > Len(metricsKeys) THEN acc
  ELSE Score(r, q, i + 1, FAdd(acc, Term(r, q, metricsKeys[i])))

\* the intensity capped at 100
IntensityCapped(r, q, tw) ==
  LET x == FDiv(FMul(FFromInt(100), Score(r, q, 1, FZero)), tw)
  IN IF FLess(x, FFromInt(100)) THEN x ELSE FFromInt(100)

\* (100 * score) / totalWeight
Intensity(r, q, tw) == FDiv(FMul(FFromInt(100), Score(r, q, 1, FZero)), tw)

\* r.date.replace(" ", "T") + "Z"
Timestamp(dateStr) == ReplaceFirst(dateStr, Space, LetterT) \o <<LetterZ>>

\* the HeartbeatPoint of one row
Point(r, q, tw) ==
  [timestamp |-> Timestamp(r.date),
   intensity |-> Intensity(r, q, tw),
   metrics |-> [key \in KeySet |-> r[key]]]

\* safeRows.sort(...).map((r) => { ... })
Points(srs, q, tw) ==
  LET sorted == SortRows(srs) IN [i \in 1..Len(sorted) |-> Point(sorted[i], q, tw)]

\* the sort applied to the caller's array itself
RowsSortedInPlace(rs) == SortRows(rs)

\* the caller's array after safeRows.sort(...): safeRows is the array rows.map
\* made, of objects the spread made, so the caller's array is left as it was
RowsAfterSort(rs) == rs

\* the steps of computeHeartbeat(rows)
Normalize ==
  /\ chpc = "called"
  /\ safeRows' = SafeRows(rows)
  /\ totalWeight' = TotalWeight
  /\ chpc' = "normalized"
  /\ UNCHANGED <<rows, q75, points, prev, p75vars, uivars, getvars>>

Percentiles ==
  /\ chpc = "normalized"
  /\ q75' = Q75(safeRows)
  /\ chpc' = "scaled"
  /\ UNCHANGED <<rows, safeRows, totalWeight, points, prev, p75vars, uivars, getvars>>

SortAndScore ==
  /\ chpc = "scaled"
  /\ points' = Points(safeRows, q75, totalWeight)
  /\ safeRows' = SortRows(safeRows)
  /\ rows' = RowsAfterSort(rows)
  /\ chpc' = "returned"
  /\ UNCHANGED <<totalWeight, q75, prev, p75vars, uivars, getvars>>

computeHeartbeat == Normalize \/ Percentiles \/ SortAndScore

(***************************************************************************)
(* The CSV rows and what the handler reads from them.                      *)
(***************************************************************************)
\* a column the parsed row does not have (row["..."] is undefined)
NoCell == <<-1>>

\* row[col]
Cell(row, col) == IF col \in DOMAIN row THEN row[col] ELSE NoCell

WhiteSpace == {9, 10, 11, 12, 13, 32}

RECURSIVE TrimStart(_)
TrimStart(str) ==
  IF str # <<>> /\ Head(str) \in WhiteSpace THEN TrimStart(Tail(str)) ELSE str

RECURSIVE TrimEnd(_)
TrimEnd(str) ==
  IF str # <<>> /\ str[Len(str)] \in WhiteSpace
  THEN TrimEnd(SubSeq(str, 1, Len(str) - 1)) ELSE str

\* str.trim()
Trim(str) == TrimEnd(TrimStart(str))

\* the cell taken as it is
TrimCellNot(cell) == cell

\* cell?.trim(): undefined stays undefined
TrimCell(cell) == IF cell = NoCell THEN NoCell ELSE Trim(cell)

\* !dateStr: undefined or the empty string
Blank(str) == str = NoCell \/ str = <<>>

RECURSIVE Digits(_, _)
\* the digits and the one optional "." of a decimal literal read from str:
\* n is the number the digits spell, k the count of digits behind the ".",
\* ok whether str is such a literal with at least one digit
Digits(str, st) ==
  IF str = <<>> THEN [st EXCEPT !.ok = st.any]
  ELSE IF Head(str) \in 48..57
       THEN Digits(Tail(str), [st EXCEPT !.n = 10 * st.n + (Head(str) - 48),
                                         !.k = IF st.dot THEN st.k + 1 ELSE 0,
                                         !.any = TRUE])
  ELSE IF Head(str) = 46 /\ ~st.dot THEN Digits(Tail(str), [st EXCEPT !.dot = TRUE])
  ELSE [st EXCEPT !.ok = FALSE]

\* Number(cell) for cells written with digits, ".", a sign, white space and
\* letters that start no numeric literal: undefined and anything that is not a
\* decimal literal give NaN, the empty or blank string gives 0
StringToNumber(cell) ==
  IF cell = NoCell THEN FNaN
  ELSE LET t == Trim(cell)
           neg == t # <<>> /\ Head(t) = 45
           body == IF t # <<>> /\ Head(t) \in {43, 45} THEN Tail(t) ELSE t
           d == Digits(body, [n |-> 0, k |-> 0, dot |-> FALSE, any |-> FALSE, ok |-> FALSE])
           x == FDiv(FFromInt(d.n), FFromInt(10^d.k))
       IN IF t = <<>> THEN FZero
          ELSE IF ~d.ok THEN FNaN
          ELSE IF neg THEN FNeg(x) ELSE x

\* Number.isFinite(x)
IsFinite(x) == x.k \in {"fin", "zero"}

(***************************************************************************)
(* ensureRow and the five merge loops of GET.  The Map is kept as the      *)
(* sequence of its values in insertion order; a row is found by its date.  *)
(***************************************************************************)
HasDate(m, dateStr) == \E i \in 1..Len(m) : m[i].date = dateStr

\* an ensureRow that sets a new row under the date whether or not one is there
ensureRowFresh(m, dateStr) ==
  IF HasDate(m, dateStr)
  THEN [i \in 1..Len(m) |-> IF m[i].date = dateStr THEN NewRow(dateStr) ELSE m[i]]
  ELSE Append(m, NewRow(dateStr))

\* the map after ensureRow(map, dateStr)
ensureRow(m, dateStr) == IF HasDate(m, dateStr) THEN m ELSE Append(m, NewRow(dateStr))

\* target.key = x for the row ensureRow returned
SetField(m, dateStr, key, x) ==
  [i \in 1..Len(m) |-> IF m[i].date = dateStr THEN [m[i] EXCEPT ![key] = x] ELSE m[i]]

\* if (Number.isFinite(x)) target.key = x
SetIfFinite(m, dateStr, key, x) == IF IsFinite(x) THEN SetField(m, dateStr, key, x) ELSE m

\* one turn of: for (const row of ordersCsv) { ... }
MergeOrdersRow(m, row) ==
  LET rawDate == IF Cell(row, "date_utc") # NoCell THEN Cell(row, "date_utc")
                 ELSE Cell(row, "date")
      dateStr == TrimCell(rawDate)
  IN IF Blank(dateStr) THEN m
     ELSE SetIfFinite(ensureRow(m, dateStr), dateStr, "orders",
                      StringToNumber(Cell(row, "orders")))

\* one turn of: for (const row of labelsCsv) { ... }
MergeLabelsRow(m, row) ==
  LET dateStr == TrimCell(Cell(row, "date"))
  IN IF Blank(dateStr) THEN m
     ELSE SetIfFinite(ensureRow(m, dateStr), dateStr, "shipping_labels",
                      StringToNumber(Cell(row, "shipping_labels")))

\* one turn of: for (const row of packersCsv) { ... }
MergePackersRow(m, row) ==
  LET dateStr == TrimCell(Cell(row, "date"))
  IN IF Blank(dateStr) THEN m
     ELSE SetIfFinite(SetIfFinite(ensureRow(m, dateStr), dateStr, "total_packers",
                                  StringToNumber(Cell(row, "total_packers"))),
                      dateStr, "total_warehouses_packers",
                      StringToNumber(Cell(row, "total_warehouses")))

\* one turn of: for (const row of pickersCsv) { ... }
MergePickersRow(m, row) ==
  LET dateStr == TrimCell(Cell(row, "date"))
  IN IF Blank(dateStr) THEN m
     ELSE SetIfFinite(SetIfFinite(ensureRow(m, dateStr), dateStr, "total_pickers",
                                  StringToNumber(Cell(row, "total_pickers"))),
                      dateStr, "total_warehouses_pickers",
                      StringToNumber(Cell(row, "total_warehouses")))

\* the by-country loop keeping one entry for every row instead of one for
\* every country
CollectCountryRowEach(cbd, row) ==
  LET dateStr == TrimCell(Cell(row, "date"))
      country == TrimCell(Cell(row, "shipping_country"))
  IN IF Blank(dateStr) \/ Blank(country) THEN cbd
     ELSE IF \E i \in 1..Len(cbd) : cbd[i].date = dateStr
          THEN [i \in 1..Len(cbd) |->
                  IF cbd[i].date = dateStr
                  THEN [cbd[i] EXCEPT !.set = cbd[i].set \cup {<<country, Cardinality(cbd[i].set)>>}]
                  ELSE cbd[i]]
          ELSE Append(cbd, [date |-> dateStr, set |-> {<<country, 0>>}])

\* one turn of: for (const row of byCountryCsv) { ... }; countriesByDate is kept
\* as the sequence of its entries in insertion order
CollectCountryRow(cbd, row) ==
  LET dateStr == TrimCell(Cell(row, "date"))
      country == TrimCell(Cell(row, "shipping_country"))
  IN IF Blank(dateStr) \/ Blank(country) THEN cbd
     ELSE IF \E i \in 1..Len(cbd) : cbd[i].date = dateStr
          THEN [i \in 1..Len(cbd) |->
                  IF cbd[i].date = dateStr
                  THEN [cbd[i] EXCEPT !.set = cbd[i].set \cup {country}] ELSE cbd[i]]
          ELSE Append(cbd, [date |-> dateStr, set |-> {country}])

\* one turn of: for (const [dateStr, set] of countriesByDate.entries()) { ... }
ApplyCountryEntry(m, entry) ==
  SetField(ensureRow(m, entry.date), entry.date, "active_countries",
           FFromInt(Cardinality(entry.set)))

(***************************************************************************)
(* The state before anything runs, and the calls' inputs.                  *)
(***************************************************************************)
Sources == {"orders", "shipping_labels", "shippings_by_country",
            "total_packers", "total_pickers"}

NoParse == [data |-> <<>>, errors |-> FALSE]

\* no response sent yet
NoResponse == [status |-> 0, body |-> <<>>, error |-> ""]

\* no earlier call of computeHeartbeat has returned
NoCall == [returned |-> FALSE, points |-> <<>>]

P75Idle == values = <<>> /\ p75ret = Undefined

CHIdle ==
  /\ rows = <<>>
  /\ chpc = "idle"
  /\ safeRows = <<>>
  /\ totalWeight = Undefined
  /\ q75 = [key \in KeySet |-> Undefined]
  /\ points = <<>>
  /\ prev = NoCall

GETIdle ==
  /\ fpc = [s \in Sources |-> "idle"]
  /\ parsed = [s \in Sources |-> NoParse]
  /\ csv = [s \in Sources |-> <<>>]
  /\ gpc = "idle"
  /\ idx = 0
  /\ map = <<>>
  /\ countriesByDate = <<>>
  /\ response = NoResponse

\* no fetchData call
NoFetch == [id |-> 0, effect |-> 0, stage |-> "none"]

UIIdle ==
  /\ comp = "none"
  /\ effect = 0
  /\ cancelled = {}
  /\ timer = 0
  /\ fetches = {}
  /\ started = 0
  /\ data = <<>>
  /\ lastSet = NoFetch
  /\ index = 0
  /\ autoplay = 0
  /\ dayRhythms = <<>>

\* bounds of the inputs
MaxList == 4

MaxRows == 2

SeqsUpTo(S, n) == UNION {[1..k -> S] : k \in 0..n}

\* arrays handed to percentile75
P75Vals == {FFromInt(n) : n \in -1..4}

P75Inputs == SeqsUpTo(P75Vals, MaxList)

\* date strings over " ", "1" and ":"
DateChars == {32, 49, 58}

\* " ", "1", ":", "1 ", "11", "1:" and "  "
DateStrs == {<<c>> : c \in DateChars} \cup {<<49, c>> : c \in DateChars} \cup {<<32, 32>>}

\* a row whose fields in S hold v and whose other fields hold z
Pattern(dateStr, S, v, z) ==
  [key \in KeySet \cup {"date"} |->
     IF key = "date" THEN dateStr ELSE IF key \in S THEN v ELSE z]

\* a row whose k-th field holds k
Ramp(dateStr) ==
  [key \in KeySet \cup {"date"} |->
     IF key = "date" THEN dateStr
     ELSE FFromInt(CHOOSE i \in 1..Len(metricsKeys) : metricsKeys[i] = key)]

\* rows that differ in their date only
DateRows == {NewRow(d) : d \in DateStrs}

\* single rows: every split of the fields into positive and zero or absent
RichRows == {Pattern(<<49>>, S, FFromInt(v), z) :
               S \in SUBSET KeySet, v \in {1, 3}, z \in {Undefined, FZero}}

\* rows met together: uniform ones, orders alone, one with seven different values
PoorRows ==
  UNION {{Pattern(d, KeySet, FFromInt(1), FZero),
          Pattern(d, KeySet, FFromInt(4), FZero),
          Pattern(d, {"orders"}, FFromInt(10), FZero),
          Pattern(d, {"orders"}, FFromInt(20), FZero),
          Pattern(d, {"orders"}, FFromInt(20), Undefined),
          Ramp(d)} : d \in {<<49, 58>>, <<49, 49>>}}

CHInputs == SeqsUpTo(DateRows, MaxRows + 1) \cup SeqsUpTo(PoorRows, MaxRows)
            \cup {<<r>> : r \in RichRows}

(***************************************************************************)
(* percentile75 and computeHeartbeat called on their own.                  *)
(***************************************************************************)
InitP75 == values \in P75Inputs /\ p75ret = Undefined /\ CHIdle /\ GETIdle /\ UIIdle

CallPercentile75 ==
  /\ p75ret = Undefined
  /\ p75ret' = percentile75Call(values).ret
  /\ values' = percentile75Call(values).values
  /\ UNCHANGED <<chvars, getvars, uivars>>

NextP75 == CallPercentile75

SpecP75 == InitP75 /\ [][NextP75]_vars

InitCH ==
  /\ rows \in CHInputs
  /\ chpc = "called"
  /\ safeRows = <<>>
  /\ totalWeight = Undefined
  /\ q75 = [key \in KeySet |-> Undefined]
  /\ points = <<>>
  /\ prev = NoCall
  /\ P75Idle
  /\ GETIdle
  /\ UIIdle

NextCH == computeHeartbeat

SpecCH == InitCH /\ [][NextCH]_vars

\* computeHeartbeat called a second time on the array it was called on before
TwiceInputs == SeqsUpTo(PoorRows, MaxRows) \cup SeqsUpTo(DateRows, MaxRows)

InitTwice ==
  /\ rows \in TwiceInputs
  /\ chpc = "called"
  /\ safeRows = <<>>
  /\ totalWeight = Undefined
  /\ q75 = [key \in KeySet |-> Undefined]
  /\ points = <<>>
  /\ prev = NoCall
  /\ P75Idle
  /\ GETIdle
  /\ UIIdle

\* the caller keeps the result and calls again with the same array; the
\* function's constants still hold what the first call left until it sets them
CallAgain ==
  /\ chpc = "returned"
  /\ ~prev.returned
  /\ prev' = [returned |-> TRUE, points |-> points]
  /\ chpc' = "called"
  /\ UNCHANGED <<rows, safeRows, totalWeight, q75, points, p75vars, uivars, getvars>>

NextTwice == computeHeartbeat \/ CallAgain

SpecTwice == InitTwice /\ [][NextTwice]_vars

(***************************************************************************)
(* fetchCsvSafe: what the five upstream files can be parsed into.  Cells   *)
(* are strings of code units; "11" and "1:" are the dates.                 *)
(***************************************************************************)
DateA == <<49, 49>>

DateB == <<49, 58>>

\* the results Papa.parse can give for the text of source s: the whole table
\* without errors, or what a damaged text still yields together with errors
ParseResults(s) ==
  CASE s = "orders" ->
         {[data |-> <<[date_utc |-> DateA, orders |-> <<50>>],
                      [date_utc |-> DateB, orders |-> <<52>>]>>, errors |-> FALSE],
          [data |-> <<[date |-> <<32>> \o DateA, orders |-> <<51>>]>>, errors |-> TRUE]}
    [] s = "shipping_labels" ->
         {[data |-> <<[date |-> DateA, shipping_labels |-> <<51>>]>>, errors |-> FALSE],
          [data |-> <<>>, errors |-> TRUE]}
    [] s = "total_packers" ->
         {[data |-> <<[date |-> DateB, total_packers |-> <<53>>,
                       total_warehouses |-> <<49>>]>>, errors |-> FALSE],
          [data |-> <<[date |-> DateB, total_packers |-> <<53>>]>>, errors |-> TRUE]}
    [] s = "total_pickers" ->
         {[data |-> <<[date |-> DateA, total_pickers |-> <<52>>,
                       total_warehouses |-> <<50>>]>>, errors |-> FALSE],
          [data |-> <<[date |-> <<>>, total_pickers |-> <<52>>]>>, errors |-> TRUE]}
    [] s = "shippings_by_country" ->
         {[data |-> <<[date |-> DateA, shipping_country |-> <<85, 83>>],
                      [date |-> DateA, shipping_country |-> <<67, 65>>],
                      [date |-> DateA, shipping_country |-> <<85, 83>>]>>,
           errors |-> FALSE],
          [data |-> <<[date |-> DateB, shipping_country |-> <<32>>]>>, errors |-> TRUE]}

\* if (!res.ok) { ...; return []; }
OnNotOk == <<>>

\* a fetchCsvSafe whose catch lets the error out: the promise is rejected
OnCatchRethrow == [pc |-> "threw", rows |-> <<>>]
\* catch (err) { ...; return []; }: the promise is fulfilled with no rows
OnCatch == [pc |-> "caught", rows |-> <<>>]

\* fetchCsvSafe returning no rows when Papa.parse reports errors
OnParsedStrict(p) == IF p.errors THEN <<>> ELSE p.data

\* if (parsed.errors.length) { console.error(...) }  return parsed.data;
OnParsed(p) == p.data

\* await fetch(url) rejects
FetchRejects(s) ==
  /\ fpc[s] = "fetching"
  /\ fpc' = [fpc EXCEPT ![s] = OnCatch.pc]
  /\ csv' = [csv EXCEPT ![s] = OnCatch.rows]
  /\ UNCHANGED <<parsed, gpc, idx, map, countriesByDate, response, p75vars, uivars, chvars>>

\* await fetch(url) gives a response, ok or not
FetchResponds(s) ==
  /\ fpc[s] = "fetching"
  /\ \E ok \in BOOLEAN :
        IF ok THEN /\ fpc' = [fpc EXCEPT ![s] = "reading"]
                   /\ csv' = csv
        ELSE /\ fpc' = [fpc EXCEPT ![s] = "notok"]
             /\ csv' = [csv EXCEPT ![s] = OnNotOk]
  /\ UNCHANGED <<parsed, gpc, idx, map, countriesByDate, response, p75vars, uivars, chvars>>

\* await res.text() rejects
TextRejects(s) ==
  /\ fpc[s] = "reading"
  /\ fpc' = [fpc EXCEPT ![s] = OnCatch.pc]
  /\ csv' = [csv EXCEPT ![s] = OnCatch.rows]
  /\ UNCHANGED <<parsed, gpc, idx, map, countriesByDate, response, p75vars, uivars, chvars>>

\* await res.text() gives the text, Papa.parse parses it
TextParsed(s) ==
  /\ fpc[s] = "reading"
  /\ \E p \in ParseResults(s) :
        /\ parsed' = [parsed EXCEPT ![s] = p]
        /\ csv' = [csv EXCEPT ![s] = OnParsed(p)]
  /\ fpc' = [fpc EXCEPT ![s] = "returned"]
  /\ UNCHANGED <<gpc, idx, map, countriesByDate, response, p75vars, uivars, chvars>>

fetchCsvSafe(s) == FetchRejects(s) \/ FetchResponds(s) \/ TextRejects(s) \/ TextParsed(s)

(***************************************************************************)
(* GET: the five fetches run together, their tables are merged by date in  *)
(* a fixed order, and the merged rows go through computeHeartbeat.         *)
(***************************************************************************)
Settled == {"caught", "notok", "returned"}

\* the same with a response of status 500 where the empty array is sent
EmptyResponseAsError == [status |-> 500, body |-> <<>>, error |-> "failed to build heartbeat"]

\* NextResponse.json([], { status: 200 })
EmptyResponse == [status |-> 200, body |-> <<>>, error |-> ""]

\* NextResponse.json({ error: "failed to build heartbeat" }, { status: 500 })
ErrorResponse == [status |-> 500, body |-> <<>>, error |-> "failed to build heartbeat"]

\* the loops of GET in the order they run
Loops == <<"orders", "shipping_labels", "total_packers", "total_pickers",
           "shippings_by_country", "countries">>

LoopAfter(loop) ==
  LET i == CHOOSE j \in 1..Len(Loops) : Loops[j] = loop
  IN IF i < Len(Loops) THEN Loops[i + 1] ELSE "respond"

\* what the loop runs over
LoopOver(loop) == IF loop = "countries" THEN countriesByDate ELSE csv[loop]

\* await Promise.all([...]): goes on when all five promises are fulfilled, and
\* throws into GET's catch as soon as one is rejected
AwaitAll ==
  /\ gpc = "awaiting"
  /\ IF \E s \in Sources : fpc[s] = "threw"
     THEN response' = ErrorResponse /\ gpc' = "done" /\ idx' = idx
     ELSE /\ \A s \in Sources : fpc[s] \in Settled
          /\ gpc' = Loops[1] /\ idx' = 1 /\ response' = response
  /\ UNCHANGED <<fpc, parsed, csv, map, countriesByDate, p75vars, uivars, chvars>>

MergeOrders ==
  /\ gpc = "orders" /\ idx <= Len(csv[gpc])
  /\ map' = MergeOrdersRow(map, csv[gpc][idx])
  /\ idx' = idx + 1
  /\ UNCHANGED <<fpc, parsed, csv, gpc, countriesByDate, response, p75vars, uivars, chvars>>

MergeLabels ==
  /\ gpc = "shipping_labels" /\ idx <= Len(csv[gpc])
  /\ map' = MergeLabelsRow(map, csv[gpc][idx])
  /\ idx' = idx + 1
  /\ UNCHANGED <<fpc, parsed, csv, gpc, countriesByDate, response, p75vars, uivars, chvars>>

MergePackers ==
  /\ gpc = "total_packers" /\ idx <= Len(csv[gpc])
  /\ map' = MergePackersRow(map, csv[gpc][idx])
  /\ idx' = idx + 1
  /\ UNCHANGED <<fpc, parsed, csv, gpc, countriesByDate, response, p75vars, uivars, chvars>>

MergePickers ==
  /\ gpc = "total_pickers" /\ idx <= Len(csv[gpc])
  /\ map' = MergePickersRow(map, csv[gpc][idx])
  /\ idx' = idx + 1
  /\ UNCHANGED <<fpc, parsed, csv, gpc, countriesByDate, response, p75vars, uivars, chvars>>

CollectCountries ==
  /\ gpc = "shippings_by_country" /\ idx <= Len(csv[gpc])
  /\ countriesByDate' = CollectCountryRow(countriesByDate, csv[gpc][idx])
  /\ idx' = idx + 1
  /\ UNCHANGED <<fpc, parsed, csv, gpc, map, response, p75vars, uivars, chvars>>

ApplyCountries ==
  /\ gpc = "countries" /\ idx <= Len(countriesByDate)
  /\ map' = ApplyCountryEntry(map, countriesByDate[idx])
  /\ idx' = idx + 1
  /\ UNCHANGED <<fpc, parsed, csv, gpc, countriesByDate, response, p75vars, uivars, chvars>>

\* a loop has run over all its rows
LoopDone ==
  /\ \E i \in 1..Len(Loops) : gpc = Loops[i]
  /\ idx > Len(LoopOver(gpc))
  /\ gpc' = LoopAfter(gpc)
  /\ idx' = 1
  /\ UNCHANGED <<fpc, parsed, csv, map, countriesByDate, response, p75vars, uivars, chvars>>

\* const rows = Array.from(map.values()); if (!rows.length) return [] with 200
RespondEmpty ==
  /\ gpc = "respond" /\ map = <<>>
  /\ response' = EmptyResponse
  /\ gpc' = "done"
  /\ UNCHANGED <<fpc, parsed, csv, idx, map, countriesByDate, chvars, p75vars, uivars>>

\* const points = computeHeartbeat(rows): the call
CallComputeHeartbeat ==
  /\ gpc = "respond" /\ map # <<>>
  /\ rows' = map
  /\ chpc' = "called"
  /\ gpc' = "computing"
  /\ UNCHANGED <<fpc, parsed, csv, idx, map, countriesByDate, response,
                 safeRows, totalWeight, q75, points, prev, p75vars, uivars>>

\* return NextResponse.json(points, { status: 200 })
RespondPoints ==
  /\ gpc = "computing" /\ chpc = "returned"
  /\ response' = [status |-> 200, body |-> points, error |-> ""]
  /\ gpc' = "done"
  /\ UNCHANGED <<fpc, parsed, csv, idx, map, countriesByDate, chvars, p75vars, uivars>>

GET ==
  \/ \E s \in Sources : fetchCsvSafe(s)
  \/ AwaitAll
  \/ MergeOrders \/ MergeLabels \/ MergePackers \/ MergePickers
  \/ CollectCountries \/ ApplyCountries \/ LoopDone
  \/ RespondEmpty
  \/ CallComputeHeartbeat
  \/ computeHeartbeat
  \/ RespondPoints

\* a request has arrived: GET has issued the five fetches
Init ==
  /\ P75Idle /\ CHIdle /\ UIIdle
  /\ fpc = [s \in Sources |-> "fetching"]
  /\ parsed = [s \in Sources |-> NoParse]
  /\ csv = [s \in Sources |-> <<>>]
  /\ gpc = "awaiting"
  /\ idx = 0
  /\ map = <<>>
  /\ countriesByDate = <<>>
  /\ response = NoResponse

Next == GET

Spec == Init /\ [][Next]_vars

\* the route's two entry points together: a request to GET, or a call of
\* computeHeartbeat on rows of its own
InitAPI == Init \/ InitCH

SpecAPI == InitAPI /\ [][Next]_vars

(***************************************************************************)
(* DailyRhythmRings: the dayRhythms memo.  A point's timestamp is kept as  *)
(* what new Date(p.timestamp) makes of it: the UTC day and hour of an ISO  *)
(* timestamp ("iso"), an invalid Date ("bad"), or the empty string.        *)
(***************************************************************************)
MAX_DAYS == 7

HoursPerDay == 24

Iso(day, hour) == [k |-> "iso", day |-> day, hour |-> hour]

BadTimestamp == [k |-> "bad", day |-> 0, hour |-> 0]

EmptyTimestamp == [k |-> "empty", day |-> 0, hour |-> 0]

\* the dayKeys of the points with a valid Date, ascending
RECURSIVE SortedDays(_)
SortedDays(D) ==
  IF D = {} THEN <<>>
  ELSE LET d == CHOOSE d \in D : \A e \in D : d <= e IN <<d>> \o SortedDays(D \ {d})

\* sortedDays.length > MAX_DAYS ? sortedDays.slice(-MAX_DAYS) : sortedDays
LastDays(sortedDays) ==
  IF Len(sortedDays) > MAX_DAYS
  THEN SubSeq(sortedDays, Len(sortedDays) - MAX_DAYS + 1, Len(sortedDays))
  ELSE sortedDays

\* the points of one day, and of one hour of it, in the order of the list
ValuesOf(pts, day) == SelectSeq(pts, LAMBDA p : p.timestamp.k = "iso" /\ p.timestamp.day = day)

HourValues(vals, hour) == SelectSeq(vals, LAMBDA p : p.timestamp.hour = hour)

RECURSIVE MinMax(_, _, _)
\* globalMin and globalMax after the loop over the points of lastDays, from
\* null (Undefined) on
MinMax(pts, i, acc) ==
  IF i > Len(pts) THEN acc
  ELSE LET v == pts[i].intensity
       IN IF ~IsFinite(v) THEN MinMax(pts, i + 1, acc)
          ELSE MinMax(pts, i + 1,
                 [min |-> IF acc.min = Undefined \/ FLess(v, acc.min) THEN v ELSE acc.min,
                  max |-> IF acc.max = Undefined \/ FLess(acc.max, v) THEN v ELSE acc.max])

RECURSIVE SumIntensity(_, _, _)
\* arr.reduce((a, b) => a + b, 0)
SumIntensity(vals, i, acc) ==
  IF i > Len(vals) THEN acc ELSE SumIntensity(vals, i + 1, FAdd(acc, vals[i].intensity))

\* one RhythmEntry (hourLabel left out)
RhythmEntry(vals, hour, gmin, gmax) ==
  LET arr == HourValues(vals, hour)
      avg == IF Len(arr) = 0 THEN FZero
             ELSE FDiv(SumIntensity(arr, 1, FZero), FFromInt(Len(arr)))
      t == FDiv(FSub(avg, gmin), FSub(gmax, gmin))
  IN [hour |-> hour, intensity |-> avg, normValue |-> FAdd(FFromInt(20), FMul(FFromInt(80), t))]

\* the useMemo body: the DayRhythm list of the points (label left out)
DayRhythms(pts) ==
  IF Len(pts) = 0 THEN <<>>
  ELSE LET lastDays == LastDays(SortedDays({pts[i].timestamp.day :
                                    i \in {j \in 1..Len(pts) : pts[j].timestamp.k = "iso"}}))
           kept == SelectSeq(pts, LAMBDA p : p.timestamp.k = "iso"
                                     /\ \E i \in 1..Len(lastDays) : lastDays[i] = p.timestamp.day)
           mm == MinMax(kept, 1, [min |-> Undefined, max |-> Undefined])
           gmin == mm.min
           gmax == IF mm.min = mm.max THEN FAdd(mm.min, FFromInt(1)) ELSE mm.max
       IN IF mm.min = Undefined \/ mm.max = Undefined THEN <<>>
          ELSE [i \in 1..Len(lastDays) |->
                  [dayKey |-> lastDays[i],
                   data |-> [h \in 1..HoursPerDay |->
                               RhythmEntry(ValuesOf(pts, lastDays[i]), h - 1, gmin, gmax)]]]

(***************************************************************************)
(* The data effect of HeartbeatChart, DailyRhythmRings and CometMap: a     *)
(* fetchData call at once and one every five minutes, until the cleanup.   *)
(***************************************************************************)
Components == {"HeartbeatChart", "DailyRhythmRings", "CometMap"}

\* bounds: data effects of one component, fetchData calls of one component
MaxEffects == 2

MaxFetches == 3

\* what res.json() can give: null, or a list
NullJson == [null |-> TRUE, items |-> <<>>]

Json(items) == [null |-> FALSE, items |-> items]

UiPoint(ts, x) == [timestamp |-> ts, intensity |-> x]

Bucket(d) == [date |-> d, arcs |-> <<>>]

Payloads(c) ==
  IF c = "CometMap"
  THEN {NullJson, Json(<<>>), Json(<<Bucket(DateA)>>),
        Json(<<Bucket(DateA), Bucket(DateB), Bucket(DateA \o DateB)>>)}
  ELSE {NullJson,
        Json(<<UiPoint(Iso(1, 5), FFromInt(50))>>),
        Json(<<UiPoint(Iso(2, 0), FFromInt(4)), UiPoint(EmptyTimestamp, FFromInt(1)),
               UiPoint(Iso(1, 5), FFromInt(2)), UiPoint(Iso(1, 0), FNaN),
               UiPoint(Iso(1, 0), Undefined)>>)}

\* raw || []
OrEmpty(raw) == IF raw.null THEN <<>> ELSE raw.items

\* p && typeof p.intensity === "number" && Number.isFinite(p.intensity) && p.timestamp
Usable(pt) == IsFinite(pt.intensity) /\ pt.timestamp.k # "empty"

\* a.timestamp.localeCompare(b.timestamp) < 0 for timestamps of the one ISO
\* shape the API writes: by day, then by hour; other text sorts behind them
TimestampBefore(a, b) ==
  IF a.k = "iso" /\ b.k = "iso"
  THEN a.day < b.day \/ (a.day = b.day /\ a.hour < b.hour)
  ELSE a.k = "iso" /\ b.k # "iso"

RECURSIVE InsertPoint(_, _)
InsertPoint(sorted, pt) ==
  IF sorted = <<>> THEN <<pt>>
  ELSE IF TimestampBefore(pt.timestamp, sorted[Len(sorted)].timestamp)
       THEN Append(InsertPoint(SubSeq(sorted, 1, Len(sorted) - 1), pt), sorted[Len(sorted)])
       ELSE Append(sorted, pt)

RECURSIVE SortPoints(_)
SortPoints(pts) ==
  IF pts = <<>> THEN <<>>
  ELSE InsertPoint(SortPoints(SubSeq(pts, 1, Len(pts) - 1)), pts[Len(pts)])

\* (raw || []).filter(...).sort(...)
Cleaned(raw) == SortPoints(SelectSeq(OrEmpty(raw), Usable))

\* the value the state setter is called with
NewState(c, raw) == IF c = "CometMap" THEN OrEmpty(raw) ELSE Cleaned(raw)

\* a fetchData that never looks at cancelled
IsCancelledNever(e) == FALSE

\* cancelled, as the fetchData calls of effect e see it
IsCancelled(e) == e \in cancelled

\* a fetchData call begun by effect e
NewFetch(e) == [id |-> started + 1, effect |-> e, stage |-> "fetching"]

\* the fetchData calls there can be
FetchCalls == [id : 1..MaxFetches, effect : 1..MaxEffects, stage : {"fetching", "reading"}]

\* setInterval(fetchData, 5 * 60 * 1000) fires
IntervalFires ==
  /\ timer # 0
  /\ started < MaxFetches
  /\ fetches' = fetches \cup {NewFetch(timer)}
  /\ started' = started + 1
  /\ UNCHANGED <<comp, effect, cancelled, timer, data, lastSet, index, autoplay,
                 dayRhythms, p75vars, chvars, getvars>>

\* await fetch(dataUrl) rejects, or !res.ok throws: caught and logged
ResponseFails(f) ==
  /\ f \in fetches
  /\ f.stage = "fetching"
  /\ fetches' = fetches \ {f}
  /\ UNCHANGED <<comp, effect, cancelled, timer, started, data, lastSet, index,
                 autoplay, dayRhythms, p75vars, chvars, getvars>>

\* await fetch(dataUrl) gives an ok response
ResponseOk(f) ==
  /\ f \in fetches
  /\ f.stage = "fetching"
  /\ fetches' = (fetches \ {f}) \cup {[f EXCEPT !.stage = "reading"]}
  /\ UNCHANGED <<comp, effect, cancelled, timer, started, data, lastSet, index,
                 autoplay, dayRhythms, p75vars, chvars, getvars>>

\* await res.json() rejects: caught and logged
JsonFails(f) ==
  /\ f \in fetches
  /\ f.stage = "reading"
  /\ fetches' = fetches \ {f}
  /\ UNCHANGED <<comp, effect, cancelled, timer, started, data, lastSet, index,
                 autoplay, dayRhythms, p75vars, chvars, getvars>>

\* await res.json() gives raw: the state is set unless cancelled, and the
\* component renders again: in DailyRhythmRings the dayRhythms memo is computed
\* from the new points; in CometMap the new buckets array re-runs the autoplay
\* effect, which clears its timer and sets one for the new buckets.length
\* unless that is 0
JsonDone(f) ==
  /\ f \in fetches
  /\ f.stage = "reading"
  /\ fetches' = fetches \ {f}
  /\ \E raw \in Payloads(comp) :
        IF IsCancelled(f.effect)
        THEN UNCHANGED <<data, lastSet, autoplay, dayRhythms>>
        ELSE /\ data' = NewState(comp, raw)
             /\ lastSet' = f
             /\ autoplay' = IF comp = "CometMap" THEN Len(NewState(comp, raw)) ELSE autoplay
             /\ dayRhythms' = IF comp = "DailyRhythmRings"
                              THEN DayRhythms(NewState(comp, raw)) ELSE dayRhythms
  /\ UNCHANGED <<comp, effect, cancelled, timer, started, index,
                 p75vars, chvars, getvars>>

fetchData(f) == ResponseFails(f) \/ ResponseOk(f) \/ JsonFails(f) \/ JsonDone(f)

\* dataUrl changes: the cleanup of the live effect runs, then the effect again
DataUrlChanges ==
  /\ effect # 0
  /\ effect < MaxEffects
  /\ started < MaxFetches
  /\ cancelled' = cancelled \cup {effect}
  /\ effect' = effect + 1
  /\ timer' = effect + 1
  /\ fetches' = fetches \cup {NewFetch(effect + 1)}
  /\ started' = started + 1
  /\ UNCHANGED <<comp, data, lastSet, index, autoplay, dayRhythms,
                 p75vars, chvars, getvars>>

\* the component unmounts: the cleanups of its effects run
Unmount ==
  /\ effect # 0
  /\ cancelled' = cancelled \cup {effect}
  /\ effect' = 0
  /\ timer' = 0
  /\ autoplay' = 0
  /\ UNCHANGED <<comp, fetches, started, data, lastSet, index, dayRhythms,
                 p75vars, chvars, getvars>>

\* CometMap: the autoplay timer fires: setIndex((i) => (i + 1) % buckets.length)
\* with the buckets of the render that set the timer
AutoplayTick ==
  /\ autoplay # 0
  /\ index' = (index + 1) % autoplay
  /\ UNCHANGED <<pollvars, autoplay, dayRhythms, p75vars, chvars, getvars>>

\* a component has mounted and its data effect has run once
InitPoll ==
  /\ P75Idle /\ CHIdle /\ GETIdle
  /\ comp \in Components
  /\ effect = 1
  /\ cancelled = {}
  /\ timer = 1
  /\ fetches = {[id |-> 1, effect |-> 1, stage |-> "fetching"]}
  /\ started = 1
  /\ data = <<>>
  /\ lastSet = NoFetch
  /\ index = 0
  /\ autoplay = 0
  /\ dayRhythms = <<>>

NextPoll ==
  \/ IntervalFires
  \/ \E f \in FetchCalls : fetchData(f)
  \/ DataUrlChanges
  \/ Unmount
  \/ AutoplayTick

SpecPoll == InitPoll /\ [][NextPoll]_vars

(***************************************************************************)
(* DailyRhythmRings rendering the points it holds.                         *)
(***************************************************************************)
\* bound of the points held
MaxPoints == 3

RhythmPoints ==
  {UiPoint(Iso(1, 0), FFromInt(50)), UiPoint(Iso(1, 0), Dec(1, 10)),
   UiPoint(Iso(1, 5), Dec(1, 10)), UiPoint(Iso(1, 5), FZero),
   UiPoint(Iso(2, 5), FFromInt(50)), UiPoint(BadTimestamp, FFromInt(50))}

\* one point on each of MAX_DAYS + 1 days
LongRun == [d \in 1..(MAX_DAYS + 1) |-> UiPoint(Iso(d, 0), FFromInt(d))]

\* the lists setPoints can have been called with: usable points in the order
\* of their timestamps
RhythmInputs ==
  {pts \in SeqsUpTo(RhythmPoints, MaxPoints) : Cleaned(Json(pts)) = pts} \cup {LongRun}

InitRhythm ==
  /\ P75Idle /\ CHIdle /\ GETIdle
  /\ comp = "DailyRhythmRings"
  /\ effect = 1
  /\ cancelled = {}
  /\ timer = 1
  /\ fetches = {}
  /\ started = 1
  /\ data \in RhythmInputs
  /\ lastSet = [id |-> 1, effect |-> 1, stage |-> "reading"]
  /\ index = 0
  /\ autoplay = 0
  /\ dayRhythms = <<>>

\* DailyRhythmRings renders: the dayRhythms memo is computed from points
RenderRhythm ==
  /\ comp = "DailyRhythmRings"
  /\ dayRhythms = <<>>
  /\ dayRhythms' = DayRhythms(data)
  /\ UNCHANGED <<pollvars, index, autoplay, p75vars, chvars, getvars>>

NextRhythm == RenderRhythm

SpecRhythm == InitRhythm /\ [][NextRhythm]_vars

(***************************************************************************)
(* The join on its own: GET after Promise.all has given the five tables.   *)
(***************************************************************************)
\* bounds of the tables
MaxCsvRows == 2

MaxCountryRows == 3

\* rows of orders.csv: "11", " 11" and "1:" as dates, under date_utc or date,
\* a blank date; "2", "4", "-3", "1.5", "x", "" and no cell as orders
OrderRows ==
  {[date_utc |-> DateA, orders |-> <<50>>],
   [date_utc |-> <<32>> \o DateA, orders |-> <<52>>],
   [date_utc |-> DateB, orders |-> <<45, 51>>],
   [date_utc |-> DateA, orders |-> <<49, 46, 53>>],
   [date_utc |-> DateA, orders |-> <<120>>],
   [date |-> DateB, orders |-> <<50>>],
   [date_utc |-> <<32>>, orders |-> <<50>>],
   [date_utc |-> DateA],
   [date_utc |-> DateB, orders |-> <<>>]}

LabelRows ==
  {[date |-> DateA, shipping_labels |-> <<51>>],
   [date |-> DateB \o <<32>>, shipping_labels |-> <<120>>],
   [date |-> <<>>, shipping_labels |-> <<51>>]}

\* rows of total_packers.csv and of total_pickers.csv, by the name of the
\* count column
StaffRows(col) ==
  {[c \in {"date", col, "total_warehouses"} |->
      IF c = "date" THEN DateB ELSE IF c = col THEN <<53>> ELSE <<49>>],
   [c \in {"date", col} |-> IF c = "date" THEN DateB ELSE <<53>>],
   [c \in {"date", col, "total_warehouses"} |->
      IF c = "date" THEN DateA \o <<32>> ELSE IF c = col THEN <<45, 49>> ELSE <<48, 46, 53>>],
   [c \in {"date", col, "total_warehouses"} |->
      IF c = "date" THEN DateB ELSE IF c = col THEN <<120>> ELSE <<50>>]}

\* rows of shippings_by_country.csv: "US", "CA", " US", "" and " " as countries
CountryRows ==
  {[date |-> DateA, shipping_country |-> <<85, 83>>],
   [date |-> DateA, shipping_country |-> <<67, 65>>],
   [date |-> DateA, shipping_country |-> <<32, 85, 83>>],
   [date |-> DateB, shipping_country |-> <<85, 83>>],
   [date |-> DateA, shipping_country |-> <<>>],
   [date |-> DateB, shipping_country |-> <<32>>]}

\* the tables one source can give
TablesOf(s) ==
  CASE s = "orders" -> SeqsUpTo(OrderRows, MaxCsvRows)
    [] s = "shipping_labels" -> SeqsUpTo(LabelRows, MaxCsvRows)
    [] s = "total_packers" -> SeqsUpTo(StaffRows("total_packers"), MaxCsvRows)
    [] s = "total_pickers" -> SeqsUpTo(StaffRows("total_pickers"), MaxCsvRows)
    [] s = "shippings_by_country" -> SeqsUpTo(CountryRows, MaxCountryRows)

\* the other four tables: all empty, or each the whole table of its source
NoTables == [s \in Sources |-> <<>>]

WholeTables == [s \in Sources |-> (CHOOSE p \in ParseResults(s) : ~p.errors).data]

JoinInputs ==
  {[base EXCEPT ![s] = t] : <<base, s, t>> \in
     UNION {{<<base, s, t>> : t \in TablesOf(s)} :
              <<base, s>> \in {NoTables, WholeTables} \X Sources}}

InitJoin ==
  /\ P75Idle /\ CHIdle /\ UIIdle
  /\ csv \in JoinInputs
  /\ fpc = [s \in Sources |-> "returned"]
  /\ parsed = [s \in Sources |-> [data |-> csv[s], errors |-> FALSE]]
  /\ gpc = Loops[1]
  /\ idx = 1
  /\ map = <<>>
  /\ countriesByDate = <<>>
  /\ response = NoResponse

NextJoin ==
  \/ MergeOrders \/ MergeLabels \/ MergePackers \/ MergePickers
  \/ CollectCountries \/ ApplyCountries \/ LoopDone
  \/ RespondEmpty
  \/ CallComputeHeartbeat
  \/ computeHeartbeat
  \/ RespondPoints

SpecJoin == InitJoin /\ [][NextJoin]_vars

(***************************************************************************)
(* What the claims speak of.                                               *)
(***************************************************************************)
\* the value at 0-based position i of arr put in ascending numeric order:
\* fewer than i + 1 elements lie below it, at least i + 1 do not exceed it
RankPick(arr, i) ==
  CHOOSE x \in {arr[j] : j \in 1..Len(arr)} :
    /\ Cardinality({j \in 1..Len(arr) : FLess(arr[j], x)}) <= i
    /\ Cardinality({j \in 1..Len(arr) : ~FLess(x, arr[j])}) > i

\* floor(0.75 * (n - 1)) in whole numbers
RankIndex(n) == (3 * (n - 1)) \div 4

\* the 75th-percentile denominator as the specification words it
StatedQ75(arr) ==
  IF arr = <<>> THEN FFromInt(1)
  ELSE LET x == RankPick(arr, RankIndex(Len(arr)))
       IN IF x = FZero THEN FFromInt(1) ELSE x

\* the column of one field, an absent field counted as 0
Column(rs, key) == [i \in 1..Len(rs) |-> Nullish(rs[i][key], FZero)]

\* the weights as the specification states them
StatedWeight(key) ==
  CASE key \in {"orders", "shipping_labels"} -> Dec(10, 10)
    [] key \in {"total_packers", "total_pickers"} -> Dec(7, 10)
    [] key \in {"total_warehouses_packers", "total_warehouses_pickers"} -> Dec(4, 10)
    [] key = "active_countries" -> Dec(5, 10)

\* the denominators of all seven fields, over the whole input rs
StatedQ75s(rs) == [key \in KeySet |-> StatedQ75(Column(rs, key))]

RECURSIVE StatedScore(_, _, _)
\* the sum over the fields, up to field number i, of weight * value / q75 with
\* the denominators sq; fields that hold no number or 0 add nothing
StatedScore(r, sq, i) ==
  IF i = 0 THEN FZero
  ELSE LET key == metricsKeys[i]
           rest == StatedScore(r, sq, i - 1)
       IN IF r[key].k = "fin"
          THEN FAdd(rest, FMul(StatedWeight(key), FDiv(r[key], sq[key])))
          ELSE rest

\* 100 * (sum of weight * value / q75) / 4.7
StatedIntensity(r, sq) ==
  FDiv(FMul(FFromInt(100), StatedScore(r, sq, Len(metricsKeys))), Dec(47, 10))

F(n) == FFromInt(n)

\* ---- C7 ----------------------------------------------------------------
\* C7: for a non-empty list of n values percentile75 returns the element at
\* index floor(0.75 * (n - 1)) of the list in ascending numeric order, or 1 if
\* that element is 0; for 1, 2, 3, 4 it returns 3; the list handed in keeps its
\* order.
C7_Percentile75 ==
  [][(values # <<>> /\ p75ret = Undefined) =>
       /\ LET x == RankPick(values, RankIndex(Len(values)))
          IN p75ret' = IF x = FZero THEN F(1) ELSE x
       /\ (SortNumbers(values) = <<F(1), F(2), F(3), F(4)>> => p75ret' = F(3))
       /\ values' = values]_vars

C7_Witness == values = <<F(4), F(1), F(3), F(2)>> /\ p75ret = F(3)

\* ---- C1 ----------------------------------------------------------------
RECURSIVE CodeUnitsLeq(_, _)
\* a <= b in lexical order of the code units
CodeUnitsLeq(a, b) ==
  IF a = <<>> THEN TRUE
  ELSE IF b = <<>> THEN FALSE
  ELSE IF Head(a) < Head(b) THEN TRUE
  ELSE IF Head(a) > Head(b) THEN FALSE
  ELSE CodeUnitsLeq(Tail(a), Tail(b))

\* C1: the points computeHeartbeat returns are in ascending lexical order of
\* the date strings they come from: no point's date string is greater than the
\* next one's.  (Point number i is made from safeRows[i] of the sorted array.)
C1_LexicalOrder ==
  chpc = "returned" =>
    \A i \in 1..(Len(points) - 1) : CodeUnitsLeq(safeRows[i].date, safeRows[i + 1].date)

\* ---- C5 ----------------------------------------------------------------
\* C5: a field absent from an input row is reported as 0 in the point's
\* metrics, enters that field's percentile as the value 0, adds nothing to the
\* row's score, and the divisor stays the sum 4.7 of all seven weights.
C5_AbsentIsZero ==
  chpc = "returned" =>
    LET sortedIn == SortRows(rows)
        sq == StatedQ75s(rows)
    IN \A i \in 1..Len(rows) :
          (\E key \in KeySet : sortedIn[i][key] = Undefined) =>
             /\ \A key \in KeySet :
                   sortedIn[i][key] = Undefined =>
                      points[i].metrics[key] = FZero /\ q75[key] = sq[key]
             /\ points[i].intensity = StatedIntensity(sortedIn[i], sq)

C5_Witness ==
  /\ chpc = "returned"
  /\ Len(rows) = 2
  /\ rows[1].total_packers = Undefined /\ rows[1].orders = F(20)
  /\ rows[2].total_packers = F(4)
  /\ q75.total_packers = F(1)
  /\ points[1].metrics.total_packers = FZero

\* ---- C6 ----------------------------------------------------------------
\* C6: every denominator q75[field] is a non-zero number, and it is exactly 1
\* when the input is empty, when all values of the field are 0 and when the
\* value the percentile rule picks is 0.
C6_Denominators ==
  chpc \in {"scaled", "returned"} =>
    \A key \in KeySet :
       LET col == Column(rows, key) IN
       /\ q75[key].k = "fin"
       /\ Denom(q75, key).k = "fin"
       /\ (\/ col = <<>>
           \/ \A i \in 1..Len(col) : col[i] = FZero
           \/ RankPick(col, RankIndex(Len(col))) = FZero) => q75[key] = F(1)

C6_Witness ==
  /\ chpc = "returned"
  /\ \E key \in KeySet :
        LET col == Column(rows, key) IN
        /\ col # <<>>
        /\ \E i \in 1..Len(col) : col[i] # FZero
        /\ RankPick(col, RankIndex(Len(col))) = FZero
        /\ q75[key] = F(1)

\* ---- C8 ----------------------------------------------------------------
OrdersOnly(r, n) ==
  /\ r.orders = F(n)
  /\ \A key \in KeySet \ {"orders"} : r[key] = FZero

\* C8: every point's intensity is 100 * (sum over the seven fields of
\* weight * value / q75) / 4.7 with the stated weights and q75 taken over the
\* whole input; two rows with orders 10 and 20 and nothing else give q75 10 and
\* the intensities 100 * 1 / 4.7 and 100 * 2 / 4.7; a row at four times q75 in
\* every field scores about 400.
C8_Intensity ==
  chpc = "returned" =>
    /\ LET sq == StatedQ75s(rows) IN
       \A i \in 1..Len(points) :
          /\ points[i].intensity = StatedIntensity(safeRows[i], sq)
          /\ (\A key \in KeySet : safeRows[i][key] = FMul(F(4), q75[key])) =>
                /\ FLess(F(399), points[i].intensity)
                /\ FLess(points[i].intensity, F(401))
    /\ (Len(rows) = 2 /\ OrdersOnly(rows[1], 10) /\ OrdersOnly(rows[2], 20)) =>
          /\ q75.orders = F(10)
          /\ \A i \in 1..2 :
                points[i].intensity =
                  FDiv(FMul(F(100), IF safeRows[i].orders = F(10) THEN F(1) ELSE F(2)),
                       Dec(47, 10))

C8_Witness ==
  /\ chpc = "returned"
  /\ Len(rows) = 2 /\ OrdersOnly(rows[1], 10) /\ OrdersOnly(rows[2], 20)
  /\ rows[1].date = <<49, 49>> /\ rows[2].date = <<49, 58>>
  /\ points[1].intensity = FDiv(F(200), Dec(47, 10))
  /\ points[2].intensity = FDiv(F(100), Dec(47, 10))

\* ---- C9 ----------------------------------------------------------------
\* C9: for non-empty input the seven weights sum to exactly 4.7, and a row
\* whose every field equals that field's q75 denominator has intensity exactly
\* 100.
C9_UnitRow ==
  /\ (chpc \in {"normalized", "scaled", "returned"} /\ rows # <<>>) =>
        totalWeight = Dec(47, 10)
  /\ chpc = "returned" =>
        \A i \in 1..Len(points) :
           (\A key \in KeySet : safeRows[i][key] = q75[key]) =>
              points[i].intensity = F(100)

C9_Witness ==
  /\ chpc = "returned"
  /\ Len(rows) = 2
  /\ totalWeight = Dec(47, 10)
  /\ \A key \in KeySet : safeRows[1][key] = q75[key]
  /\ safeRows[1].orders # safeRows[1].active_countries
  /\ points[1].intensity = F(100)

\* ---- C10 ---------------------------------------------------------------
RECURSIVE WeightSum(_, _)
\* the weights of the fields in S added up in field order, from field i down
WeightSum(S, i) ==
  IF i = 0 THEN FZero
  ELSE IF metricsKeys[i] \in S
       THEN FAdd(WeightSum(S, i - 1), StatedWeight(metricsKeys[i]))
       ELSE WeightSum(S, i - 1)

\* C10: with a single input row the denominators come from that row alone: a
\* positive field normalizes to exactly 1, a zero or absent one to 0; the
\* intensity is 100 * (sum of the weights of the positive fields) / 4.7, which
\* is 100 when all seven are positive and less than 100 otherwise.
C10_SingleRow ==
  (chpc = "returned" /\ Len(rows) = 1) =>
    LET r == rows[1]
        pos == {key \in KeySet : r[key].k = "fin" /\ r[key].s = 0}
        x == points[1].intensity
    IN /\ \A key \in KeySet :
             /\ q75[key] = IF key \in pos THEN r[key] ELSE F(1)
             /\ FDiv(Nullish(r[key], FZero), q75[key])
                  = IF key \in pos THEN F(1) ELSE FZero
       /\ x = FDiv(FMul(F(100), WeightSum(pos, Len(metricsKeys))), Dec(47, 10))
       /\ pos = KeySet => x = F(100)
       /\ pos # KeySet => FLess(x, F(100))

C10_Witness ==
  /\ chpc = "returned"
  /\ Len(rows) = 1
  /\ rows[1].orders = F(3) /\ rows[1].total_pickers = F(3)
  /\ \A key \in KeySet \ {"orders", "total_pickers"} : rows[1][key] = Undefined
  /\ points[1].intensity = FDiv(FMul(F(100), FAdd(F(1), Dec(7, 10))), Dec(47, 10))

(***************************************************************************)
(* What the merged response is stated to be, from the five tables alone.   *)
(***************************************************************************)
\* the date a row is filed under
DateOf(s, row) ==
  TrimCell(IF s = "orders" /\ Cell(row, "date_utc") # NoCell
           THEN Cell(row, "date_utc") ELSE Cell(row, "date"))

\* the country a row of the by-country table names
CountryOf(row) == TrimCell(Cell(row, "shipping_country"))

\* the row yields a date-keyed record
Keyed(s, row) ==
  /\ ~Blank(DateOf(s, row))
  /\ s = "shippings_by_country" => ~Blank(CountryOf(row))

StatedDatesOf(c, s) == {DateOf(s, c[s][i]) : i \in {j \in 1..Len(c[s]) : Keyed(s, c[s][j])}}

StatedDates(c) == UNION {StatedDatesOf(c, s) : s \in Sources}

\* the metric fields a source feeds, each with the column it is read from
FieldsOf(s) ==
  CASE s = "orders" -> {<<"orders", "orders">>}
    [] s = "shipping_labels" -> {<<"shipping_labels", "shipping_labels">>}
    [] s = "total_packers" -> {<<"total_packers", "total_packers">>,
                               <<"total_warehouses_packers", "total_warehouses">>}
    [] s = "total_pickers" -> {<<"total_pickers", "total_pickers">>,
                               <<"total_warehouses_pickers", "total_warehouses">>}
    [] s = "shippings_by_country" -> {<<"active_countries", "shipping_country">>}

\* the value table c[s] supplies for a field on date d: the last finite number
\* in the field's column among the rows of that date, the count of distinct
\* countries for the by-country table, and 0 when it supplies none
StatedField(c, s, col, d) ==
  IF s = "shippings_by_country"
  THEN FFromInt(Cardinality({CountryOf(c[s][i]) :
                  i \in {j \in 1..Len(c[s]) : Keyed(s, c[s][j]) /\ DateOf(s, c[s][j]) = d}}))
  ELSE LET hits == {i \in 1..Len(c[s]) :
                      /\ Keyed(s, c[s][i]) /\ DateOf(s, c[s][i]) = d
                      /\ IsFinite(StringToNumber(Cell(c[s][i], col)))}
       IN IF hits = {} THEN FZero
          ELSE StringToNumber(Cell(c[s][CHOOSE i \in hits : \A j \in hits : j <= i], col))

\* the source that feeds a field, and the column it reads
SourceOfKey(key) == CHOOSE s \in Sources : \E f \in FieldsOf(s) : f[1] = key

ColumnOfKey(key) == (CHOOSE f \in FieldsOf(SourceOfKey(key)) : f[1] = key)[2]

StatedRow(c, d) ==
  [key \in KeySet \cup {"date"} |->
     IF key = "date" THEN d
     ELSE StatedField(c, SourceOfKey(key), ColumnOfKey(key), d)]

RECURSIVE SetToSeq(_)
SetToSeq(S) == IF S = {} THEN <<>> ELSE LET x == CHOOSE x \in S : TRUE
                                        IN <<x>> \o SetToSeq(S \ {x})

\* the response the five tables are stated to give
StatedResponse(c) ==
  LET srs == SafeRows(SetToSeq({StatedRow(c, d) : d \in StatedDates(c)}))
  IN [status |-> 200, body |-> Points(srs, Q75(srs), TotalWeight), error |-> ""]

\* the point of the response that stands for date d
PointsFor(d) == {i \in 1..Len(response.body) : response.body[i].timestamp = Timestamp(d)}

\* ---- C2 ----------------------------------------------------------------
\* C2: computeHeartbeat called with no rows returns no points, and GET answers
\* with the empty array and status 200 when the five tables together yield no
\* date-keyed row.
C2_EmptyIsEmpty ==
  /\ (chpc = "returned" /\ rows = <<>>) => points = <<>>
  /\ (gpc = "done" /\ StatedDates(csv) = {}) =>
        response = [status |-> 200, body |-> <<>>, error |-> ""]

C2_Witness ==
  /\ gpc = "done"
  /\ StatedDates(csv) = {}
  /\ csv["total_pickers"] # <<>> /\ csv["shippings_by_country"] # <<>>
  /\ fpc["orders"] = "notok"
  /\ response.status = 200 /\ response.body = <<>>

\* ---- C3 ----------------------------------------------------------------
\* the source ended in a network error, a failure to read the body, or a
\* response that was not ok
FailedToLoad(s) == fpc[s] \in {"caught", "notok"}

\* the source's text parsed with errors
ParsedWithErrors(s) == fpc[s] = "returned" /\ parsed[s].errors

\* the response is a 200 in which source s counts as an empty table and every
\* other source that did not fail in the sense of Fails shows what it supplied
DegradesToEmpty(s, Fails(_)) ==
  /\ response.status = 200
  /\ \A i \in 1..Len(response.body) :
        \A f \in FieldsOf(s) : response.body[i].metrics[f[1]] = FZero
  /\ \A t \in Sources \ {s} :
        ~Fails(t) =>
           \A d \in StatedDatesOf(csv, t) :
              /\ PointsFor(d) # {}
              /\ \A i \in PointsFor(d) : \A f \in FieldsOf(t) :
                    response.body[i].metrics[f[1]] = StatedField(csv, t, f[2], d)

FailedOrParseError(s) == FailedToLoad(s) \/ ParsedWithErrors(s)

\* C3 as stated: a source that fails to load, by a network error, a response
\* that is not ok or a CSV parse error, counts as an empty table; the response
\* is still a 200, the other sources' fields keep what those sources supplied
\* and the failed source's fields are 0 for every date.
C3_AsStated ==
  gpc = "done" =>
    \A s \in Sources : FailedOrParseError(s) => DegradesToEmpty(s, FailedOrParseError)

\* C3: a source that ends in a network error, a failure to read the body or a
\* response that is not ok counts as an empty table: the response is still a
\* 200, the other sources' fields keep what those sources supplied and the
\* failed source's fields are 0 for every date.  A CSV parse error is no such
\* failure: the rows Papa.parse returned next to its errors are merged like
\* any other rows.
C3_FailedSourceIsEmpty ==
  gpc = "done" =>
    /\ \A s \in Sources : FailedToLoad(s) => csv[s] = <<>> /\ DegradesToEmpty(s, FailedToLoad)
    /\ \A s \in Sources : ParsedWithErrors(s) =>
          /\ csv[s] = parsed[s].data
          /\ \A d \in StatedDatesOf(csv, s) :
                /\ PointsFor(d) # {}
                /\ \A i \in PointsFor(d) : \A f \in FieldsOf(s) :
                      response.body[i].metrics[f[1]] = StatedField(csv, s, f[2], d)

C3_Witness ==
  /\ gpc = "done"
  /\ fpc["shipping_labels"] = "caught" /\ fpc["total_pickers"] = "notok"
  /\ ParsedWithErrors("orders") /\ ~ParsedWithErrors("total_packers")
  /\ fpc["total_packers"] = "returned" /\ fpc["shippings_by_country"] = "returned"
  /\ Len(response.body) = 2
  /\ \E i \in 1..2 :
        /\ response.body[i].timestamp = Timestamp(DateA)
        /\ response.body[i].metrics.orders = F(3)
        /\ response.body[i].metrics.shipping_labels = FZero
        /\ response.body[i].metrics.total_pickers = FZero
  /\ \E i \in 1..2 :
        /\ response.body[i].timestamp = Timestamp(DateB)
        /\ response.body[i].metrics.total_packers = F(5)
        /\ response.body[i].metrics.total_pickers = FZero

\* ---- C4 ----------------------------------------------------------------
\* C4: the five fetches are in flight together and no fetch waits for another:
\* a fetch that has not settled can always take its next step; a table that a
\* fetch has returned never changes afterwards, whatever the other fetches do;
\* and the response is the one the five returned tables determine, so it is
\* the same for every order in which the fetches complete.
C4_Concurrent ==
  /\ [](/\ \A s \in Sources : fpc[s] \in {"fetching", "reading"} => ENABLED fetchCsvSafe(s)
        /\ gpc = "done" => response = StatedResponse(csv))
  /\ [][\A s \in Sources : fpc[s] \in Settled => (fpc'[s] = fpc[s] /\ csv'[s] = csv[s])]_vars

C4_Witness ==
  /\ gpc = "done"
  /\ fpc["orders"] = "caught"
  /\ \A s \in Sources \ {"orders"} : fpc[s] = "returned" /\ ~parsed[s].errors
  /\ Len(response.body) = 2
  /\ response = StatedResponse(csv)

\* ---- C11 ---------------------------------------------------------------
\* the positions of the space characters of a date string
SpacesOf(d) == {j \in 1..Len(d) : d[j] = Space}

\* C11: every point's timestamp is its row's date string with the first space,
\* and only the first, replaced by "T", and a "Z" appended; a date string
\* without a space only gets the "Z"; no other character changes.
C11_Timestamp ==
  chpc = "returned" =>
    \A i \in 1..Len(points) :
       LET d == safeRows[i].date
           t == points[i].timestamp
       IN /\ Len(t) = Len(d) + 1
          /\ t[Len(t)] = LetterZ
          /\ \A j \in 1..Len(d) :
                t[j] = IF j \in SpacesOf(d) /\ \A k \in SpacesOf(d) : j <= k
                       THEN LetterT ELSE d[j]

C11_Witness ==
  /\ chpc = "returned"
  /\ Len(points) = 2
  /\ safeRows[1].date = <<Space, Space>> /\ points[1].timestamp = <<LetterT, Space, LetterZ>>
  /\ safeRows[2].date = <<49, 58>> /\ points[2].timestamp = <<49, 58, LetterZ>>

FedBy(loop) ==
  IF loop = "countries" THEN {"active_countries"}
  ELSE IF loop \in Sources \ {"shippings_by_country"} THEN {f[1] : f \in FieldsOf(loop)}
  ELSE {}

\* the date the merge loops' current turn refers to
DateInTurn ==
  IF gpc = "countries" THEN countriesByDate[idx].date ELSE DateOf(gpc, csv[gpc][idx])

\* the map keeps every record where it is and under its date, changes no field
\* but those the running loop feeds, and gets at most one new record, under
\* the date the current turn refers to, which had no record before
MapOnlyGrows ==
  /\ Len(map') >= Len(map) /\ Len(map') <= Len(map) + 1
  /\ \A i \in 1..Len(map) :
        /\ map'[i].date = map[i].date
        /\ \A key \in KeySet : map'[i][key] # map[i][key] => key \in FedBy(gpc)
  /\ Len(map') > Len(map) =>
        /\ map'[Len(map')].date = DateInTurn
        /\ ~HasDate(map, DateInTurn)

\* no two records of the map have the same date
OneRecordPerDate == \A i, j \in 1..Len(map) : map[i].date = map[j].date => i = j

\* the response has one point for each date of D and no other point
OnePointPerDate(D) ==
  /\ response.status = 200
  /\ Len(response.body) = Cardinality(D)
  /\ {response.body[i].timestamp : i \in 1..Len(response.body)} = {Timestamp(d) : d \in D}

\* the non-empty dates, white space at the ends apart, of all rows of all tables
AppearingDates(c) ==
  UNION {{DateOf(s, c[s][i]) : i \in {j \in 1..Len(c[s]) : ~Blank(DateOf(s, c[s][j]))}} :
           s \in Sources}

\* C13 as stated: a record is created when its date is first referenced, is
\* then only changed field by field and never deleted or replaced, so the
\* map's dates only grow; the response has exactly one point for each distinct
\* non-empty date that appears in any of the five sources, and no other point.
C13_AsStated ==
  /\ [][MapOnlyGrows]_vars
  /\ [](OneRecordPerDate /\ (gpc = "done" => OnePointPerDate(AppearingDates(csv))))

\* C13: a record is created when its date is first referenced, is then only
\* changed field by field and never deleted or replaced, so the map's dates
\* only grow; the response has exactly one point for each distinct non-empty
\* date of a row of the four count tables or of a by-country row that names a
\* non-empty country, and no other point: a by-country row without a country
\* refers to no record.
C13_RecordsOnlyGrow ==
  /\ [][MapOnlyGrows]_vars
  /\ [](OneRecordPerDate /\ (gpc = "done" => OnePointPerDate(StatedDates(csv))))

C13_Witness ==
  /\ gpc = "done"
  /\ csv["orders"] = <<[date_utc |-> <<32>> \o DateA, orders |-> <<52>>],
                       [date_utc |-> DateB, orders |-> <<>>]>>
  /\ csv["shipping_labels"] # <<>> /\ csv["total_packers"] # <<>>
  /\ Len(map) = 2
  /\ map[1].orders = F(4) /\ map[1].shipping_labels = F(3) /\ map[2].total_packers = F(5)
  /\ Len(response.body) = 2

\* ---- C14 ---------------------------------------------------------------
\* the date cell a row is read by, as the source has it
RawDate(s, row) ==
  IF s = "orders" /\ Cell(row, "date_utc") # NoCell THEN Cell(row, "date_utc")
  ELSE Cell(row, "date")

\* the string taken character for character
AsItIs(str) == str

\* one turn of a merge loop files its row under Key(its raw date): the record
\* of that key is there afterwards, no other record changes and a new record
\* has that key; a by-country row with a country is collected under that key;
\* a row whose key is empty changes nothing
JoinsBy(Key(_)) ==
  (gpc \in Sources /\ idx <= Len(csv[gpc])) =>
    LET x == RawDate(gpc, csv[gpc][idx])
        k == IF x = NoCell THEN NoCell ELSE Key(x)
    IN IF Blank(k) THEN map' = map /\ countriesByDate' = countriesByDate
       ELSE IF gpc = "shippings_by_country"
       THEN ~Blank(Trim(Cell(csv[gpc][idx], "shipping_country"))) =>
               /\ \E i \in 1..Len(countriesByDate') : countriesByDate'[i].date = k
               /\ \A i \in 1..Len(countriesByDate') :
                     (i > Len(countriesByDate) \/ countriesByDate'[i] # countriesByDate[i])
                        => countriesByDate'[i].date = k
       ELSE /\ HasDate(map', k)
            /\ \A i \in 1..Len(map') : (i > Len(map) \/ map'[i] # map[i]) => map'[i].date = k

\* every record's date is the key of some row, and so is every collected date
KeysAre(Key(_)) ==
  LET keys == {Key(RawDate(s, csv[s][i])) :
                 <<s, i>> \in UNION {{<<s, i>> : i \in {j \in 1..Len(csv[s]) :
                                        RawDate(s, csv[s][j]) # NoCell}} : s \in Sources}}
  IN /\ \A i \in 1..Len(map) : map[i].date \in keys
     /\ \A i \in 1..Len(countriesByDate) : countriesByDate[i].date \in keys

\* C14 as stated: rows are merged into the same record exactly when their raw
\* date strings are equal character for character; the date string is not
\* normalized before it is used as the key.
C14_AsStated ==
  /\ [][JoinsBy(AsItIs)]_vars
  /\ [](OneRecordPerDate /\ KeysAre(AsItIs))

\* C14: rows are merged into the same record exactly when their date strings
\* are equal once white space at their ends is trimmed away: the key is the
\* trimmed date string, compared character for character, with no other
\* normalization.
C14_JoinByTrimmedDate ==
  /\ [][JoinsBy(Trim)]_vars
  /\ [](OneRecordPerDate /\ KeysAre(Trim))

C14_Witness ==
  /\ gpc = "shipping_labels" /\ idx = 2
  /\ csv["orders"] = <<[date_utc |-> <<32>> \o DateA, orders |-> <<52>>]>>
  /\ csv["shipping_labels"][1].date = DateA
  /\ Len(map) = 1
  /\ map[1].date = DateA /\ map[1].orders = F(4) /\ map[1].shipping_labels = F(3)

\* ---- C15 ---------------------------------------------------------------
\* x is a finite non-negative integer
IsCount(x) == x.k = "zero" \/ (x.k = "fin" /\ x.s = 0 /\ FFromInt(FFloor(x)) = x)

\* C15: in every state of the map the join builds, and in every record handed
\* to computeHeartbeat, each of the seven fields is absent or a finite
\* non-negative integer: no source cell makes a field negative or fractional.
C15_FieldsAreCounts ==
  /\ \A i \in 1..Len(map) : \A key \in KeySet :
        map[i][key] = Undefined \/ IsCount(map[i][key])
  /\ \A i \in 1..Len(rows) : \A key \in KeySet :
        rows[i][key] = Undefined \/ IsCount(rows[i][key])

\* a cell that does not parse to a finite number is never stored: a field only
\* changes to the finite number its cell holds (checked next to C15)
C15_OnlyFiniteStored ==
  [][\A i \in 1..Len(map') : \A key \in KeySet :
        (i > Len(map) \/ map'[i][key] # map[i][key]) =>
           (map'[i][key] = Undefined \/ IsFinite(map'[i][key]))]_vars

\* ---- C16 ---------------------------------------------------------------
\* the distinct non-empty countries the by-country table t lists for date d,
\* white space at the ends of cells apart
CountriesListed(t, d) ==
  {Trim(t[i].shipping_country) :
     i \in {j \in 1..Len(t) : /\ Trim(t[j].date) = d
                               /\ Trim(t[j].shipping_country) # <<>>}}

C17_NormValueRange ==
  \A i \in 1..Len(dayRhythms) : \A h \in 1..HoursPerDay :
     LET x == dayRhythms[i].data[h].normValue
     IN x.k \in {"fin", "zero"} /\ ~FLess(x, F(20)) /\ ~FLess(F(100), x)

\* ---- C18 ---------------------------------------------------------------
\* C18: in CometMap, whenever the bucket list is not empty the index is a
\* position in it: 0 <= index < buckets.length.
C18_IndexInRange ==
  (comp = "CometMap" /\ data # <<>>) => (0 <= index /\ index < Len(data))

\* ---- C19 ---------------------------------------------------------------
\* C19: in each polling component, once the cleanup of a data effect has run,
\* no fetchData call of that effect sets the data state when it completes:
\* the state only changes through the setter, and the setter is only called by
\* a call whose effect has not been cleaned up; and the timer of a cleaned-up
\* effect is cleared, so that no new fetchData call belongs to such an effect.
C19_NoSetAfterCleanup ==
  /\ [][/\ data' # data => lastSet' # lastSet
        /\ lastSet' # lastSet => (lastSet' \in fetches /\ lastSet'.effect \notin cancelled)
        /\ \A f \in fetches' : f.id > started => f.effect \notin cancelled']_vars
  /\ [](timer # 0 => timer \notin cancelled)

C19_Witness ==
  /\ effect = 2 /\ cancelled = {1}
  /\ started >= 2
  /\ fetches = {}
  /\ lastSet.effect = 2
  /\ data # <<>>

====
